---- MODULE Spec2Model ----
(***************************************************************************)
(* Model of the wafer mapping tool (map_maker.py): the grid-point          *)
(* generator compute_points with its two exclusion predicates, and the     *)
(* extraction of rectangular exclusion zones from the drawing canvas.      *)
(*                                                                         *)
(* Numbers.  The program computes on floats.  The model computes on exact  *)
(* fixed-point numbers: every length is an integer count of 1/Den mm, with *)
(* Den = 2 * CANVAS_SIZE, so that the halvings of compute_points           *)
(* (diameter/2, spacing/2) and the division by CANVAS_SIZE of the canvas   *)
(* transform are exact on the inputs the model draws (whole millimetres,   *)
(* whole pixels).  Floating-point rounding is outside the model.           *)
(***************************************************************************)
EXTENDS Integers, Sequences, FiniteSets

VARIABLES
    wafer_diameter,   \* session_state['wafer_diameter']            (1/Den mm)
    edge_exclusion,   \* session_state['edge_exclusion']            (1/Den mm)
    grid_type,        \* session_state['grid_type']
    spacing_x,        \* session_state['spacing_x']                 (1/Den mm)
    spacing_y,        \* the spacing_y handed to compute_points     (1/Den mm)
    exclusion_zones,  \* session_state['exclusion_zones']: seq of <<ex, ey, er>>
    drawable_rects,   \* session_state['drawable_rects']: seq of <<rx, ry, rw, rh>>
    canvas_objects,   \* canvas_result.json_data["objects"] (pixels)
    points,           \* the sequence compute_points returned last
    num_points,       \* the count compute_points returned last
    pc                \* "params": arguments set, "done": compute_points returned

vars == <<wafer_diameter, edge_exclusion, grid_type, spacing_x, spacing_y,
          exclusion_zones, drawable_rects, canvas_objects, points, num_points, pc>>

---------------------------------------------------------------------------
(* Program constants *)

CANVAS_SIZE == 400

DefaultDiameter == 80

(* Bounds of the model *)

MaxDiameter == 4

MaxSpacing == 2

MaxEdge == 3

MaxZones == 1

MaxRects == 1

MaxCanvasObjects == 1

MaxColumns == 10

---------------------------------------------------------------------------
(* Fixed point *)

Den == 2 * CANVAS_SIZE

mm(n) == n * Den

Range(s) == {s[k] : k \in 1..Len(s)}

SeqsUpTo(S, n) == UNION {[1..k -> S] : k \in 0..n}

(* Inputs the model draws, in whole millimetres.  10 and 5 are the          *)
(* diameter and spacing of the documented example; 80 is the default.      *)
DiameterSet == (1..MaxDiameter) \cup {10, DefaultDiameter}

SpacingSet == (1..MaxSpacing) \cup {5}

EdgeSet == 0..MaxEdge

GridTypes == {"Rectangular", "Hexagonal"}

CircZoneSet ==
    { <<mm(0), mm(0), mm(1)>>,      \* a small zone at the centre
      <<mm(0), mm(0), mm(10)>>,     \* the zone of the documented example
      <<mm(1), mm(-1), mm(1)>> }    \* a zone off the centre

RectZoneSet ==
    { <<mm(-1), mm(-1), mm(2), mm(2)>>,     \* a proper rectangle
      <<mm(-1), mm(-1), mm(0), mm(2)>>,     \* width 0
      <<mm(-1), mm(1),  mm(2), mm(0)>>,     \* height 0
      <<mm(1),  mm(-1), mm(-2), mm(2)>>,    \* width < 0
      <<mm(-1), mm(1),  mm(2), mm(-2)>> }   \* height < 0

CanvasObjectSet ==
    { [type |-> "rect", left |-> 0,   top |-> 0,   width |-> 100, height |-> 100],
      [type |-> "rect", left |-> 150, top |-> 100, width |-> 100, height |-> 200],
      [type |-> "path", left |-> 10,  top |-> 10,  width |-> 20,  height |-> 20] }

---------------------------------------------------------------------------
(* Utility functions *)

\* is_inside_exclusion with the zone radius left unsquared (in mm: d2 <= er)
is_inside_exclusion_unsquared(x, y, zones) ==
    \E k \in 1..Len(zones) :
        (x - zones[k][1]) * (x - zones[k][1]) + (y - zones[k][2]) * (y - zones[k][2])
            <= zones[k][3] * Den

\* any(... for ex in zones): inclusive circle test
is_inside_exclusion(x, y, zones) ==
    \E k \in 1..Len(zones) :
        (x - zones[k][1]) * (x - zones[k][1]) + (y - zones[k][2]) * (y - zones[k][2])
            <= zones[k][3] * zones[k][3]

\* is_inside_rects on the rectangle normalised to its minimum corner
is_inside_rects_normalised(x, y, rects) ==
    \E k \in 1..Len(rects) :
        LET x0 == rects[k][1]
            x1 == rects[k][1] + rects[k][3]
            y0 == rects[k][2]
            y1 == rects[k][2] + rects[k][4]
        IN  /\ x >= (IF x0 <= x1 THEN x0 ELSE x1)
            /\ x <= (IF x0 <= x1 THEN x1 ELSE x0)
            /\ y >= (IF y0 <= y1 THEN y0 ELSE y1)
            /\ y <= (IF y0 <= y1 THEN y1 ELSE y0)

\* any(... for (rx, ry, rw, rh) in rects): inclusive on all four sides
is_inside_rects(x, y, rects) ==
    \E k \in 1..Len(rects) :
        /\ x >= rects[k][1]
        /\ x <= rects[k][1] + rects[k][3]
        /\ y >= rects[k][2]
        /\ y <= rects[k][2] + rects[k][4]

\* arange that rounds the length down and so can lose its last value
arange_short(start, stop, step) ==
    LET n == IF start >= stop THEN 0 ELSE (stop - start) \div step
    IN  [k \in 1..n |-> start + (k - 1) * step]

\* np.arange(start, stop, step) for step > 0: ceil((stop - start)/step) values
arange(start, stop, step) ==
    LET n == IF start >= stop THEN 0 ELSE ((stop - start) + step - 1) \div step
    IN  [k \in 1..n |-> start + (k - 1) * step]

\* x_range anchored at the wafer's left edge, without the half-spacing offset
x_range_anchored(wafer_radius, sx) ==
    LET n == IF -wafer_radius >= wafer_radius THEN 0
             ELSE (2 * wafer_radius + sx - 1) \div sx
    IN  [k \in 1..n |-> -wafer_radius + (k - 1) * sx]

\* x_range of both branches
x_range(wafer_radius, sx) == arange(-wafer_radius + sx \div 2, wafer_radius, sx)

\* hex_offset with the parity test inverted
hex_offset_swapped(i, sy) == IF i % 2 = 0 THEN sy \div 2 ELSE 0

\* offset of the i-th column (0-indexed) in the hexagonal branch
hex_offset(i, sy) == IF i % 2 = 0 THEN 0 ELSE sy \div 2

\* y_range of the i-th column (0-indexed): the same for every column of the
\* Rectangular branch, shifted by hex_offset in the hexagonal branch
y_range(gt, i, wafer_radius, sy) ==
    IF gt = "Rectangular"
    THEN arange(-wafer_radius + sy \div 2, wafer_radius, sy)
    ELSE arange(-wafer_radius + sy \div 2 + hex_offset(i, sy), wafer_radius, sy)

\* accept without the rectangular-zone test
accept_no_rects(x, y, wafer_radius, ee, zones, rects) ==
    LET r2 == x * x + y * y
    IN  /\ r2 <= wafer_radius * wafer_radius
        /\ r2 <= (wafer_radius - ee) * (wafer_radius - ee)
        /\ ~ is_inside_exclusion(x, y, zones)

\* the acceptance test of a candidate
accept(x, y, wafer_radius, ee, zones, rects) ==
    LET r2 == x * x + y * y
    IN  /\ r2 <= wafer_radius * wafer_radius
        /\ r2 <= (wafer_radius - ee) * (wafer_radius - ee)
        /\ ~ is_inside_exclusion(x, y, zones)
        /\ ~ is_inside_rects(x, y, rects)

\* column_points walking the column from its last candidate to its first
column_points_reversed(x, ys, wafer_radius, ee, zones, rects) ==
    LET Test(y) == accept(x, y, wafer_radius, ee, zones, rects)
        kept == SelectSeq(ys, Test)
    IN  [k \in 1..Len(kept) |-> <<x, kept[Len(kept) + 1 - k]>>]

\* the inner loop: the accepted points of one column, in the order of ys
column_points(x, ys, wafer_radius, ee, zones, rects) ==
    LET Test(y) == accept(x, y, wafer_radius, ee, zones, rects)
        kept == SelectSeq(ys, Test)
    IN  [k \in 1..Len(kept) |-> <<x, kept[k]>>]

\* the outer loop
compute_points(diameter, ee, gt, sx, sy, zones, rects) ==
    LET wafer_radius == diameter \div 2
        xs == x_range(wafer_radius, sx)
        pts[n \in 0..Len(xs)] ==
            IF n = 0 THEN << >>
            ELSE pts[n - 1] \o column_points(xs[n], y_range(gt, n - 1, wafer_radius, sy),
                                             wafer_radius, ee, zones, rects)
    IN  pts[Len(xs)]

\* rect_from_canvas without the Y flip
rect_from_canvas_noflip(obj, diameter) ==
    LET wafer_radius == diameter \div 2
        x == (obj.left * diameter) \div CANVAS_SIZE - wafer_radius
        w == (obj.width * diameter) \div CANVAS_SIZE
        h == (obj.height * diameter) \div CANVAS_SIZE
        y_top_canvas == (obj.top * diameter) \div CANVAS_SIZE
    IN  <<x, y_top_canvas - wafer_radius, w, h>>

\* one canvas object to a wafer-plane rectangle
rect_from_canvas(obj, diameter) ==
    LET wafer_radius == diameter \div 2
        x == (obj.left * diameter) \div CANVAS_SIZE - wafer_radius
        w == (obj.width * diameter) \div CANVAS_SIZE
        h == (obj.height * diameter) \div CANVAS_SIZE
        y_top_canvas == (obj.top * diameter) \div CANVAS_SIZE
        y_flipped == diameter - y_top_canvas - h - wafer_radius
    IN  <<x, y_flipped, w, h>>

\* the extraction loop over the canvas objects
extract_rects(objs, diameter) ==
    LET IsRect(o) == o.type = "rect"
        rs == SelectSeq(objs, IsRect)
    IN  [k \in 1..Len(rs) |-> rect_from_canvas(rs[k], diameter)]

---------------------------------------------------------------------------
(* State machine *)

Columns(diameter, s) == Len(x_range(diameter \div 2, s))

\* compute_points is a pure function of its seven arguments: they are drawn
\* from the bounded input sets; nothing is drawn on the canvas yet
Init ==
    /\ wafer_diameter \in {mm(d) : d \in DiameterSet}
    /\ edge_exclusion \in {mm(e) : e \in EdgeSet}
    /\ grid_type \in GridTypes
    /\ spacing_x \in {mm(s) : s \in SpacingSet}
    /\ spacing_y \in {mm(s) : s \in SpacingSet}
    /\ exclusion_zones \in SeqsUpTo(CircZoneSet, MaxZones)
    /\ drawable_rects \in SeqsUpTo(RectZoneSet, MaxRects)
    /\ canvas_objects = << >>
    /\ points = << >>
    /\ num_points = 0
    /\ pc = "params"

\* the canvas reports one more drawn object; the script reruns and stores
\* the rectangles extracted from all the objects
DrawRect ==
    /\ pc = "params"
    /\ Len(canvas_objects) < MaxCanvasObjects
    /\ \E obj \in CanvasObjectSet :
        /\ canvas_objects' = Append(canvas_objects, obj)
        /\ drawable_rects' = extract_rects(canvas_objects', wafer_diameter)
    /\ UNCHANGED <<wafer_diameter, edge_exclusion, grid_type, spacing_x, spacing_y,
                   exclusion_zones, points, num_points, pc>>

\* the call of compute_points, for grids of at most MaxColumns columns and
\* rows (the default wafer of 80 mm with these spacings is left to DrawRect)
Compute(gt) ==
    /\ pc = "params"
    /\ grid_type = gt
    /\ Columns(wafer_diameter, spacing_x) <= MaxColumns
    /\ Columns(wafer_diameter, spacing_y) <= MaxColumns
    /\ points' = compute_points(wafer_diameter, edge_exclusion, grid_type,
                                spacing_x, spacing_y, exclusion_zones, drawable_rects)
    /\ num_points' = Len(points')
    /\ pc' = "done"
    /\ UNCHANGED <<wafer_diameter, edge_exclusion, grid_type, spacing_x, spacing_y,
                   exclusion_zones, drawable_rects, canvas_objects>>

ComputeRectangular == Compute("Rectangular")

ComputeHexagonal == Compute("Hexagonal")

Next == DrawRect \/ ComputeRectangular \/ ComputeHexagonal

Spec == Init /\ [][Next]_vars

---------------------------------------------------------------------------
(* Vocabulary of the properties, written from their statements *)

Radius == wafer_diameter \div 2

Sq(a) == a * a

\* the four acceptance predicates on a point
InWafer(p) == Sq(p[1]) + Sq(p[2]) <= Sq(Radius)

InEdgeBound(p) == Sq(p[1]) + Sq(p[2]) <= Sq(Radius - edge_exclusion)

InSomeCircle(p) ==
    \E z \in Range(exclusion_zones) : Sq(p[1] - z[1]) + Sq(p[2] - z[2]) <= Sq(z[3])

InSomeRect(p) ==
    \E z \in Range(drawable_rects) :
        z[1] <= p[1] /\ p[1] <= z[1] + z[3] /\ z[2] <= p[2] /\ p[2] <= z[2] + z[4]

Acceptable(p) == InWafer(p) /\ InEdgeBound(p) /\ ~ InSomeCircle(p) /\ ~ InSomeRect(p)

\* the candidate lattice: column indices, X of a column, Y candidates of a column
ColIdx == {i \in 0..(wafer_diameter \div spacing_x) :
              -Radius + spacing_x \div 2 + i * spacing_x < Radius}

ColX(i) == -Radius + spacing_x \div 2 + i * spacing_x

YStart(i) ==
    IF grid_type = "Hexagonal" /\ i % 2 = 1
    THEN -Radius + spacing_y
    ELSE -Radius + spacing_y \div 2

ColY(i) == {y \in {YStart(i) + k * spacing_y : k \in 0..(wafer_diameter \div spacing_y)} :
               y < Radius}

Candidates == UNION {{<<ColX(i), y>> : y \in ColY(i)} : i \in ColIdx}

NoZones == exclusion_zones = << >> /\ drawable_rects = << >>

Without(seq, k) == [j \in 1..(Len(seq) - 1) |-> IF j < k THEN seq[j] ELSE seq[j + 1]]

Recompute(ee, rects) ==
    compute_points(wafer_diameter, ee, grid_type, spacing_x, spacing_y,
                   exclusion_zones, rects)

Half(n) == mm(n) \div 2

---------------------------------------------------------------------------
\* C1: every point compute_points returns satisfies the four acceptance
\* predicates at once: inside the wafer, inside the edge-exclusion bound
\* x^2 + y^2 <= (radius - edgeExclusion)^2, in no circular zone and in no
\* rectangular zone (boundaries inclusive).
C1_Soundness ==
    pc = "done" => \A k \in 1..Len(points) : Acceptable(points[k])

\* a run with both kinds of zone and an edge margin that returned points
\* and rejected candidates on a zone
C1_Witness ==
    /\ pc = "done"
    /\ num_points > 0
    /\ edge_exclusion > 0
    /\ exclusion_zones # << >>
    /\ drawable_rects # << >>
    /\ \E p \in Candidates : InSomeCircle(p)
    /\ \E p \in Candidates : InSomeRect(p) /\ ~ InSomeCircle(p) /\ InEdgeBound(p)

\* C2: every candidate of the lattice that satisfies the four predicates is
\* returned; diameter 10, spacing 5, no margin, Rectangular, no zones gives
\* exactly the four points (+-2.5, +-2.5).
C2_Completeness ==
    pc = "done" =>
        /\ \A p \in Candidates : Acceptable(p) => p \in Range(points)
        /\ ( /\ wafer_diameter = mm(10) /\ spacing_x = mm(5) /\ spacing_y = mm(5)
             /\ edge_exclusion = 0 /\ grid_type = "Rectangular" /\ NoZones )
           => /\ num_points = 4
              /\ Range(points) = {<<-Half(5), -Half(5)>>, <<-Half(5), Half(5)>>,
                                  <<Half(5), -Half(5)>>, <<Half(5), Half(5)>>}

C2_Witness ==
    /\ pc = "done"
    /\ wafer_diameter = mm(10) /\ spacing_x = mm(5) /\ spacing_y = mm(5)
    /\ edge_exclusion = 0 /\ grid_type = "Rectangular" /\ NoZones
    /\ num_points = 4

\* C3: with edgeExclusion greater than the wafer radius compute_points
\* returns no point.
C3_EdgeBeyondRadiusEmpty ==
    (pc = "done" /\ edge_exclusion > Radius) => num_points = 0

\* C4: with everything else fixed, a larger edgeExclusion never gives a
\* larger count.
C4_MonotoneInEdge ==
    pc = "done" =>
        \A e \in EdgeSet :
            mm(e) >= edge_exclusion => Len(Recompute(mm(e), drawable_rects)) <= num_points

\* C5 as stated: with no zones and no margin the Rectangular result is
\* closed under (x, y) -> (-x, -y), for every diameter and spacing.
C5_SymmetryAlways ==
    (pc = "done" /\ grid_type = "Rectangular" /\ NoZones /\ edge_exclusion = 0)
        => \A p \in Range(points) : <<-p[1], -p[2]>> \in Range(points)

\* C5 amended: with no zones and no margin the Rectangular result is closed
\* under (x, y) -> (-x, -y) when the diameter is a whole multiple of
\* spacingX and of spacingY.
C5_SymmetryWhenDivisible ==
    ( /\ pc = "done" /\ grid_type = "Rectangular" /\ NoZones /\ edge_exclusion = 0
      /\ wafer_diameter % spacing_x = 0 /\ wafer_diameter % spacing_y = 0 )
        => \A p \in Range(points) : <<-p[1], -p[2]>> \in Range(points)

\* a divisible Rectangular run returning points off both axes
C5_Witness ==
    /\ pc = "done" /\ grid_type = "Rectangular" /\ NoZones /\ edge_exclusion = 0
    /\ wafer_diameter % spacing_x = 0 /\ wafer_diameter % spacing_y = 0
    /\ spacing_x # spacing_y
    /\ \E p \in Range(points) : p[1] # 0 /\ p[2] # 0

\* C6 as stated: a rectangular zone with width <= 0 or height <= 0 removes
\* no point from the result.
C6_DegenerateExcludesNothing ==
    pc = "done" =>
        \A k \in 1..Len(drawable_rects) :
            (drawable_rects[k][3] <= 0 \/ drawable_rects[k][4] <= 0)
                => Recompute(edge_exclusion, Without(drawable_rects, k)) = points

\* C6 amended: a rectangular zone with width < 0 or height < 0 removes no
\* point from the result.
C6_NegativeExcludesNothing ==
    pc = "done" =>
        \A k \in 1..Len(drawable_rects) :
            (drawable_rects[k][3] < 0 \/ drawable_rects[k][4] < 0)
                => Recompute(edge_exclusion, Without(drawable_rects, k)) = points

\* a run with a zone of negative width that returned a point lying between
\* the zone's two vertical and two horizontal lines
C6_Witness ==
    /\ pc = "done"
    /\ \E z \in Range(drawable_rects) :
        /\ z[3] < 0 /\ z[4] > 0
        /\ \E p \in Range(points) :
            z[1] + z[3] <= p[1] /\ p[1] <= z[1] /\ z[2] <= p[2] /\ p[2] <= z[2] + z[4]

\* C7: in Hexagonal mode the Y candidates of column i start at
\* -radius + spacingY/2 for even i and at -radius + spacingY for odd i, step
\* spacingY, below radius; the returned points are exactly those candidates
\* that pass the same four tests as in Rectangular mode, with the spacingY
\* given.
C7_HexColumns ==
    (pc = "done" /\ grid_type = "Hexagonal") =>
        LET X(i) == -Radius + spacing_x \div 2 + i * spacing_x
            Y0(i) == IF i % 2 = 0 THEN -Radius + spacing_y \div 2
                                  ELSE -Radius + spacing_y
            Ys(i) == {y \in {Y0(i) + k * spacing_y : k \in 0..(wafer_diameter \div spacing_y)} :
                         y < Radius /\ Acceptable(<<X(i), y>>)}
        IN  Range(points) = UNION {{<<X(i), y>> : y \in Ys(i)} : i \in ColIdx}

\* a Hexagonal run, spacingY not derived from spacingX, with points returned
\* in an even and in an odd column
C7_Witness ==
    /\ pc = "done" /\ grid_type = "Hexagonal"
    /\ spacing_y > spacing_x
    /\ \E p \in Range(points) : p[1] = ColX(0)
    /\ \E p \in Range(points) : p[1] = ColX(1) /\ (p[2] + Radius) % spacing_y = 0

\* C8: a circular zone centred at the origin with radius >= the wafer radius
\* leaves no point, for every grid type, spacing, margin and rectangle set.
C8_ZoneSaturation ==
    ( /\ pc = "done"
      /\ \E z \in Range(exclusion_zones) : z[1] = 0 /\ z[2] = 0 /\ z[3] >= Radius )
        => num_points = 0 /\ points = << >>

\* the documented case: diameter 10, spacing 5, zone (0, 0, 10); the same
\* arguments without the zone give four points
C8_Witness ==
    /\ pc = "done"
    /\ wafer_diameter = mm(10) /\ spacing_x = mm(5) /\ spacing_y = mm(5)
    /\ exclusion_zones = << <<0, 0, mm(10)>> >>
    /\ num_points = 0
    /\ Len(compute_points(wafer_diameter, edge_exclusion, grid_type, spacing_x,
                          spacing_y, << >>, drawable_rects)) = 4

\* C9: once the canvas has reported its objects, the k-th stored zone
\* (x, y, w, h) comes from the k-th drawn rectangle (left, top, width,
\* height) by x = left*d/c - r, w = width*d/c, h = height*d/c,
\* y = d - top*d/c - h - r; its upper edge y + h is r - top*d/c; a rectangle
\* inside the canvas maps inside [-r, r] x [-r, r]; (0, 0, 100, 100) on a
\* wafer of diameter 80 gives (-40, 20, 20, 20).
C9_CanvasTransform ==
    canvas_objects # << >> =>
        LET c == CANVAS_SIZE
            d == wafer_diameter
            r == Radius
            IsDrawn(o) == o.type = "rect"
            drawn == SelectSeq(canvas_objects, IsDrawn)
        IN  /\ Len(drawable_rects) = Len(drawn)
            /\ \A k \in 1..Len(drawn) :
                LET o == drawn[k]
                    z == drawable_rects[k]
                IN  /\ c * z[1] = o.left * d - c * r
                    /\ c * z[3] = o.width * d
                    /\ c * z[4] = o.height * d
                    /\ c * z[2] = c * d - o.top * d - c * z[4] - c * r
                    /\ c * (z[2] + z[4]) = c * r - o.top * d
                    /\ ( /\ o.left >= 0 /\ o.top >= 0 /\ o.width >= 0 /\ o.height >= 0
                         /\ o.left + o.width <= c /\ o.top + o.height <= c )
                       => /\ -r <= z[1] /\ z[1] + z[3] <= r
                          /\ -r <= z[2] /\ z[2] + z[4] <= r
                    /\ ( /\ o.left = 0 /\ o.top = 0 /\ o.width = 100 /\ o.height = 100
                         /\ d = mm(80) )
                       => z = <<mm(-40), mm(20), mm(20), mm(20)>>

\* the documented rectangle drawn on the default wafer
C9_Witness ==
    /\ wafer_diameter = mm(80)
    /\ Len(canvas_objects) = 1
    /\ canvas_objects[1].type = "rect"
    /\ canvas_objects[1].left = 0 /\ canvas_objects[1].top = 0
    /\ canvas_objects[1].width = 100 /\ canvas_objects[1].height = 100
    /\ drawable_rects = << <<mm(-40), mm(20), mm(20), mm(20)>> >>

\* C10: the returned sequence is strictly increasing in the lexicographic
\* order on (x, y), so it holds no point twice.
C10_GenerationOrder ==
    pc = "done" =>
        \A a, b \in 1..Len(points) :
            a < b => \/ points[a][1] < points[b][1]
                     \/ points[a][1] = points[b][1] /\ points[a][2] < points[b][2]

\* a Hexagonal run that returned two points in each of two columns
C10_Witness ==
    /\ pc = "done" /\ grid_type = "Hexagonal"
    /\ \E a, b \in 1..(Len(points) - 1) :
        /\ a + 1 < b
        /\ points[a][1] = points[a + 1][1]
        /\ points[b][1] = points[b + 1][1]
        /\ points[a][1] < points[b][1]

====
